---- MODULE Spec2Model ----
(***************************************************************************)
(* Verification model of three parts of the media worker:                  *)
(*   - RTC::RtpPacket        (Parse, Serialize, Clone)                     *)
(*   - RTC::RTCP::ByePacket  (Parse, Serialize)                            *)
(*   - UnixStreamSocket      (Close, Write and the libuv callbacks)        *)
(* Each part has its own specification (SpecRtp, SpecBye, SpecSocket); the *)
(* variables of the other parts stay at their initial values.              *)
(***************************************************************************)
EXTENDS Integers, Sequences, FiniteSets, TLC

VARIABLES
    \* ---- RtpPacket ----
    data,        \* the byte buffer handed to RtpPacket::Parse (data, len = Len(data))
    heap,        \* the buffers allocated by Serialize, in allocation order
    dst,         \* the caller's buffer handed to Clone
    packet,      \* the RtpPacket instance returned by Parse (or NoPacket)
    cloned,      \* the RtpPacket instance returned by the last Clone (or NoPacket)
    rtpPc,       \* "start", "parsed", "rejected", "aborted"
    lastOp,      \* the last RtpPacket operation that ran
    nSerialize,  \* number of Serialize calls made
    nClone,      \* number of Clone calls made
    snap,        \* the packet and its raw bytes as they were when Clone was called
    \* ---- ByePacket ----
    byeData,     \* the byte buffer handed to ByePacket::Parse (data, len = Len(byeData))
    byePacket,   \* the ByePacket returned by Parse: [ssrcs, reason], or NoPacket
    byeOob,      \* Parse read a byte past the end of byeData
    byeOut,      \* the caller's buffer handed to ByePacket::Serialize
    byeRet,      \* the size ByePacket::Serialize returned
    byePc,       \* "start", "parsed", "rejected", "serialized"
    hostLE,      \* the build's byte order: TRUE for a little-endian host
    \* ---- UnixStreamSocket ----
    sock,        \* the socket: its members, its libuv handle and requests, and
                 \* the record of what it called (see SockNew)
    \* ---- Room ----
    room         \* the room: its peers, their receivers and senders, the two
                 \* routing maps and the last packet dispatch (see RoomNew)

rtpVars == <<data, heap, dst, packet, cloned, rtpPc, lastOp, nSerialize, nClone, snap>>

byeVars == <<byeData, byePacket, byeOob, byeOut, byeRet, byePc, hostLE>>

sockVars == <<sock>>

roomVars == <<room>>

vars == <<rtpVars, byeVars, sockVars, roomVars>>

\* the variables of the other parts
notRtp == <<byeVars, sockVars, roomVars>>

notBye == <<rtpVars, sockVars, roomVars>>

notSock == <<rtpVars, byeVars, roomVars>>

notRoom == <<rtpVars, byeVars, sockVars>>

-----------------------------------------------------------------------------
(* Bounds of the RTP model *)

\* largest CSRC count of a generated input
MaxCc == 1
\* largest header extension length (in 32-bit words) that a generated input can hold
MaxExtLen == 1
\* largest payload + padding tail of a generated input
MaxTail == 3
\* Serialize calls per packet
MaxSerialize == 2
\* Clone calls per packet
MaxClone == 1
\* bytes at the start of a released block that the allocator may overwrite
ClobberLen == 16

\* sizeof(Header): the fixed RTP header
HeaderSize == 12

MaxLen == HeaderSize + 4 * MaxCc + 4 + 4 * MaxExtLen + MaxTail

\* values an uninitialised or released byte may hold
GarbageBytes == {0, 1}

-----------------------------------------------------------------------------
(* Pointers and memory *)

NoPacket == [none |-> TRUE]

NULL == [buf |-> "null", idx |-> 0, off |-> 0]

Ptr(buf, idx, off) == [buf |-> buf, idx |-> idx, off |-> off]

PtrAdd(p, n) == [p EXCEPT !.off = p.off + n]

\* the bytes of the buffer a pointer points into, as memory holds them now
BufBytes(p, d, h, t) ==
    CASE p.buf = "data" -> d
      [] p.buf = "heap" -> h[p.idx].bytes
      [] p.buf = "dst"  -> t
      [] OTHER          -> <<>>

\* the byte at offset i of the bytes b (0-based); a read past the end of the
\* buffer yields the garbage byte u
RdB(b, i, u) == IF i < Len(b) THEN b[i + 1] ELSE u

\* the byte at p[i]
Rd(p, i, d, h, t, u) == RdB(BufBytes(p, d, h, t), p.off + i, u)

\* what the allocator may do to a released block: nothing, or overwrite its
\* first ClobberLen bytes with its own bookkeeping (a little-endian link word
\* of value g, the rest zeroed)
ClobberChoices ==
    {[k |-> 0, g |-> 0]} \cup {[k |-> ClobberLen, g |-> g] : g \in GarbageBytes}

Clobber(bytes, c) ==
    [i \in 1..Len(bytes) |->
        IF i <= c.k THEN (IF i = 1 THEN c.g ELSE 0) ELSE bytes[i]]

\* every released block of the heap clobbered by choice c
ClobberFreed(h, c) ==
    IF c.k = 0 THEN h
    ELSE [k \in 1..Len(h) |->
            IF h[k].freed THEN [h[k] EXCEPT !.bytes = Clobber(h[k].bytes, c)] ELSE h[k]]

-----------------------------------------------------------------------------
(* RTP header fields (struct Header, first byte: V(2) P(1) X(1) CC(4)) *)

HeaderVersion(b0) == b0 \div 64

HeaderPadding(b0) == (b0 \div 32) % 2

HeaderExtension(b0) == (b0 \div 16) % 2

HeaderCsrcCount(b0) == b0 % 16

\* ntohs of the two bytes hi, lo
Ntohs(hi, lo) == hi * 256 + lo

\* RtpPacket::IsRtp
IsRtp(d, len) == len >= HeaderSize /\ HeaderVersion(d[1]) = 2

-----------------------------------------------------------------------------
(* RtpPacket::RtpPacket *)

NewRtpPacket(header, extensionHeader, payload, payloadLength, payloadPadding, raw, length, b0) ==
    [ header          |-> header,
      csrcList        |-> IF HeaderCsrcCount(b0) # 0 THEN PtrAdd(raw, HeaderSize) ELSE NULL,
      extensionHeader |-> extensionHeader,
      payload         |-> payload,
      payloadLength   |-> payloadLength,
      payloadPadding  |-> payloadPadding,
      raw             |-> raw,
      length          |-> length,
      isSerialized    |-> FALSE ]

(* RtpPacket::Parse.  d is the buffer (1-based), len its length.  The result
   is NoPacket (nullptr) or [pkt |-> the packet, assertOk |-> the MS_ASSERTs held]. *)

ParseMutantPadding(d, len) ==
    IF ~IsRtp(d, len) THEN NoPacket
    ELSE
    LET b0   == d[1]
        base == Ptr("data", 0, 0)
        cc   == HeaderCsrcCount(b0)
        csrc_list_size == IF cc # 0 THEN cc * 4 ELSE 0
        pos1 == HeaderSize
    IN
    IF cc # 0 /\ len < pos1 + csrc_list_size THEN NoPacket
    ELSE
    LET pos2 == pos1 + csrc_list_size
        hasExt == HeaderExtension(b0) = 1
    IN
    IF hasExt /\ len < pos2 + 4 THEN NoPacket
    ELSE
    LET extension_value_size ==
            IF hasExt THEN Ntohs(d[pos2 + 3], d[pos2 + 4]) * 4 ELSE 0
    IN
    IF hasExt /\ len < pos2 + 4 + extension_value_size THEN NoPacket
    ELSE
    LET pos == IF hasExt THEN pos2 + 4 + extension_value_size ELSE pos2
        payloadLength0 == len - pos
        hasPad == HeaderPadding(b0) = 1
    IN
    IF hasPad /\ payloadLength0 = 0 THEN NoPacket
    ELSE
    LET payloadPadding == IF hasPad THEN d[len] ELSE 0
    IN
    \* the check "payloadPadding == 0" is missing
    IF hasPad /\ payloadLength0 < payloadPadding THEN NoPacket
    ELSE
    LET payloadLength == payloadLength0 - payloadPadding
        payload == IF payloadLength = 0 THEN NULL ELSE PtrAdd(base, pos)
        extensionHeader == IF hasExt THEN PtrAdd(base, pos2) ELSE NULL
    IN
    [ pkt |-> NewRtpPacket(base, extensionHeader, payload, payloadLength,
                           payloadPadding, base, len, b0),
      assertOk |-> len >= pos
                   /\ len = HeaderSize + csrc_list_size
                            + (IF hasExt THEN 4 + extension_value_size ELSE 0)
                            + payloadLength + payloadPadding ]

Parse(d, len) ==
    IF ~IsRtp(d, len) THEN NoPacket
    ELSE
    LET b0   == d[1]
        base == Ptr("data", 0, 0)
        cc   == HeaderCsrcCount(b0)
        csrc_list_size == IF cc # 0 THEN cc * 4 ELSE 0
        pos1 == HeaderSize
    IN
    IF cc # 0 /\ len < pos1 + csrc_list_size THEN NoPacket
    ELSE
    LET pos2 == pos1 + csrc_list_size
        hasExt == HeaderExtension(b0) = 1
    IN
    IF hasExt /\ len < pos2 + 4 THEN NoPacket
    ELSE
    LET extension_value_size ==
            IF hasExt THEN Ntohs(d[pos2 + 3], d[pos2 + 4]) * 4 ELSE 0
    IN
    IF hasExt /\ len < pos2 + 4 + extension_value_size THEN NoPacket
    ELSE
    LET pos == IF hasExt THEN pos2 + 4 + extension_value_size ELSE pos2
        payloadLength0 == len - pos
        hasPad == HeaderPadding(b0) = 1
    IN
    IF hasPad /\ payloadLength0 = 0 THEN NoPacket
    ELSE
    LET payloadPadding == IF hasPad THEN d[len] ELSE 0
    IN
    IF hasPad /\ payloadPadding = 0 THEN NoPacket
    ELSE
    IF hasPad /\ payloadLength0 < payloadPadding THEN NoPacket
    ELSE
    LET payloadLength == payloadLength0 - payloadPadding
        payload == IF payloadLength = 0 THEN NULL ELSE PtrAdd(base, pos)
        extensionHeader == IF hasExt THEN PtrAdd(base, pos2) ELSE NULL
    IN
    [ pkt |-> NewRtpPacket(base, extensionHeader, payload, payloadLength,
                           payloadPadding, base, len, b0),
      assertOk |-> len >= pos
                   /\ len = HeaderSize + csrc_list_size
                            + (IF hasExt THEN 4 + extension_value_size ELSE 0)
                            + payloadLength + payloadPadding ]

-----------------------------------------------------------------------------
(* RtpPacket::GetExtensionHeaderLength *)

GetExtensionHeaderLength(p, d, h, t, u) ==
    IF p.extensionHeader = NULL THEN 0
    ELSE Ntohs(Rd(p.extensionHeader, 2, d, h, t, u), Rd(p.extensionHeader, 3, d, h, t, u)) * 4

(* RtpPacket::Serialize on packet p, with memory (d, h, t).
   c1: what the allocator does to the block released by "delete this->raw";
   c2: what it does to released blocks while serving "new uint8_t[length]";
   u : the value of the bytes of the new block before they are written, and
       of bytes read past the end of a buffer.
   The result is [pkt, heap, assertOk]. *)

Serialize(p, d, h, t, c1, c2, u) ==
    LET \* if (this->isSerialized) delete this->raw;
        h1 == IF p.isSerialized
              THEN ClobberFreed([h EXCEPT ![p.raw.idx].freed = TRUE], c1)
              ELSE h
        hasCsrc == p.csrcList # NULL
        hasExt  == p.extensionHeader # NULL
        \* first calculate the total required size
        ccA  == HeaderCsrcCount(Rd(p.header, 0, d, h1, t, u))
        extension_value_size ==
            IF hasExt
            THEN Ntohs(Rd(p.extensionHeader, 2, d, h1, t, u),
                       Rd(p.extensionHeader, 3, d, h1, t, u)) * 4
            ELSE 0
        length == HeaderSize + (IF hasCsrc THEN ccA * 4 ELSE 0)
                  + (IF hasExt THEN 4 + extension_value_size ELSE 0)
                  + p.payloadLength + p.payloadPadding
        \* this->raw = new uint8_t[this->length];
        h2   == ClobberFreed(h1, c2)
        idx  == Len(h) + 1
        raw  == Ptr("heap", idx, 0)
        \* memcpy(this->raw, this->header, sizeof(Header)); header = raw
        ccC  == HeaderCsrcCount(Rd(p.header, 0, d, h2, t, u))
        posE == HeaderSize + (IF hasCsrc THEN ccC * 4 ELSE 0)
        posP == posE + (IF hasExt THEN 4 + extension_value_size ELSE 0)
        posD == posP + (IF p.payload # NULL THEN p.payloadLength ELSE 0)
        pos  == posD + p.payloadPadding
        \* the buffers the copies read, as memory holds them after the allocation
        bufH == BufBytes(p.header, d, h2, t)
        bufC == BufBytes(p.csrcList, d, h2, t)
        bufE == BufBytes(p.extensionHeader, d, h2, t)
        bufP == BufBytes(p.payload, d, h2, t)
        \* the copies, in the order the code makes them; a byte of the new
        \* block that no copy writes keeps its uninitialised value u
        bytes == [i \in 1..length |->
                    LET j == i - 1 IN
                    CASE j < HeaderSize -> RdB(bufH, p.header.off + j, u)
                      [] hasCsrc /\ j >= HeaderSize /\ j < posE ->
                            RdB(bufC, p.csrcList.off + j - HeaderSize, u)
                      [] hasExt /\ j >= posE /\ j < posP ->
                            RdB(bufE, p.extensionHeader.off + j - posE, u)
                      [] p.payload # NULL /\ j >= posP /\ j < posD ->
                            RdB(bufP, p.payload.off + j - posP, u)
                      [] p.payloadPadding # 0 /\ j = pos - 1 -> p.payloadPadding
                      [] OTHER -> u]
    IN  [ pkt |-> [ p EXCEPT
                      !.isSerialized    = TRUE,
                      !.length          = length,
                      !.raw             = raw,
                      !.header          = raw,
                      !.csrcList        = IF hasCsrc THEN PtrAdd(raw, HeaderSize) ELSE NULL,
                      !.extensionHeader = IF hasExt THEN PtrAdd(raw, posE) ELSE NULL,
                      !.payload         = IF p.payload # NULL THEN PtrAdd(raw, posP) ELSE NULL ],
          heap |-> Append(h2, [bytes |-> bytes, freed |-> FALSE]),
          assertOk |-> pos = length ]

(* RtpPacket::Clone(buffer) on packet p; t is the caller's buffer before the
   call.  The result is [pkt, dst, assertOk]. *)

Clone(p, d, h, t, u) ==
    LET buffer == Ptr("dst", 0, 0)
        \* memcpy(buffer, GetRaw(), GetLength());
        bufR == BufBytes(p.raw, d, h, t)
        t1 == [i \in 1..Len(t) |->
                 IF i <= p.length THEN RdB(bufR, p.raw.off + i - 1, u) ELSE t[i]]
        b0   == IF Len(t1) > 0 THEN t1[1] ELSE u
        pos1 == HeaderSize + (IF p.csrcList # NULL THEN HeaderCsrcCount(b0) * 4 ELSE 0)
        hasExt == p.extensionHeader # NULL
        pos2 == pos1 + (IF hasExt THEN 4 + GetExtensionHeaderLength(p, d, h, t, u) ELSE 0)
        pos3 == pos2 + (IF p.payload # NULL THEN p.payloadLength ELSE 0)
        pos  == pos3 + p.payloadPadding
        \* buffer[pos + payloadPadding - 1] = payloadPadding
        t2 == [i \in 1..Len(t1) |->
                 IF p.payloadPadding # 0 /\ i = pos THEN p.payloadPadding ELSE t1[i]]
    IN  [ pkt |-> NewRtpPacket(buffer,
                               IF hasExt THEN PtrAdd(buffer, pos1) ELSE NULL,
                               IF p.payload # NULL THEN PtrAdd(buffer, pos2) ELSE NULL,
                               p.payloadLength, p.payloadPadding, buffer, p.length, b0),
          dst |-> t2,
          assertOk |-> pos = p.length ]

-----------------------------------------------------------------------------
(* The inputs of RtpPacket::Parse *)

\* first bytes: version 1 or 2, padding and extension flags, CSRC count
Byte0Vals ==
    {v * 64 + p * 32 + x * 16 + cc : v \in {1, 2}, p \in {0, 1}, x \in {0, 1}, cc \in 0..MaxCc}

\* the filler byte at (0-based) position i: nonzero and different at each position
Fill(i) == 100 + i

\* a buffer of len bytes: first byte b0, the low byte of the extension length
\* field extLo (its high byte 0), last byte last, filler elsewhere
MkData(len, b0, extLo, last) ==
    LET extPos == HeaderSize + 4 * HeaderCsrcCount(b0)
        hasExt == HeaderExtension(b0) = 1
    IN  [i \in 1..len |->
            LET j == i - 1 IN
            CASE j = 0 -> b0
              [] hasExt /\ j = extPos + 2 -> 0
              [] hasExt /\ j = extPos + 3 -> extLo
              [] j >= HeaderSize /\ j = len - 1 -> last
              [] OTHER -> Fill(j)]

Inputs ==
    {MkData(len, b0, extLo, last) :
        len \in 0..MaxLen, b0 \in Byte0Vals, extLo \in 0..(MaxExtLen + 1), last \in 0..(MaxTail + 1)}

-----------------------------------------------------------------------------
(* The RtpPacket state machine *)

RtpInit ==
    /\ data \in Inputs
    /\ heap = <<>>
    /\ dst = <<>>
    /\ packet = NoPacket
    /\ cloned = NoPacket
    /\ rtpPc = "start"
    /\ lastOp = "none"
    /\ nSerialize = 0
    /\ nClone = 0
    /\ snap = NoPacket

\* packet = RtpPacket::Parse(data, len)
RtpParse ==
    /\ rtpPc = "start"
    /\ LET r == Parse(data, Len(data)) IN
        /\ packet' = (IF r = NoPacket THEN NoPacket ELSE r.pkt)
        /\ rtpPc' = (IF r = NoPacket THEN "rejected"
                     ELSE IF r.assertOk THEN "parsed" ELSE "aborted")
    /\ lastOp' = "Parse"
    /\ UNCHANGED <<data, heap, dst, cloned, nSerialize, nClone, snap>>
    /\ UNCHANGED notRtp

\* packet->Serialize()
RtpSerialize ==
    /\ rtpPc = "parsed"
    /\ nSerialize < MaxSerialize
    /\ \E c1 \in (IF packet.isSerialized THEN ClobberChoices ELSE {[k |-> 0, g |-> 0]}),
          c2 \in (IF packet.isSerialized THEN ClobberChoices ELSE {[k |-> 0, g |-> 0]}),
          u \in GarbageBytes :
          LET r == Serialize(packet, data, heap, dst, c1, c2, u) IN
            /\ packet' = r.pkt
            /\ heap' = r.heap
            /\ rtpPc' = (IF r.assertOk THEN "parsed" ELSE "aborted")
    /\ lastOp' = "Serialize"
    /\ nSerialize' = nSerialize + 1
    /\ UNCHANGED <<data, dst, cloned, nClone, snap>>
    /\ UNCHANGED notRtp

\* cloned = packet->Clone(buffer), buffer a caller's buffer of GetLength() bytes
RtpClone ==
    /\ rtpPc = "parsed"
    /\ nClone < MaxClone
    /\ \E u \in GarbageBytes :
          LET r == Clone(packet, data, heap, [i \in 1..packet.length |-> u], u) IN
            /\ cloned' = r.pkt
            /\ dst' = r.dst
            /\ rtpPc' = (IF r.assertOk THEN "parsed" ELSE "aborted")
    /\ lastOp' = "Clone"
    /\ nClone' = nClone + 1
    /\ snap' = [pkt |-> packet, raw |-> BufBytes(packet.raw, data, heap, dst)]
    /\ UNCHANGED <<data, heap, packet, nSerialize>>
    /\ UNCHANGED notRtp

RtpNext ==
    \/ RtpParse
    \/ RtpSerialize
    \/ RtpClone

-----------------------------------------------------------------------------
(* RTC::RTCP::ByePacket *)

\* largest item count of a generated BYE
MaxByeCount == 2
\* largest reason length of a generated BYE
MaxReason == 2

\* sizeof(Packet::CommonHeader)
CommonHeaderSize == 4

\* the RTCP packet type of a BYE
ByeType == 203

MaxByeLen == CommonHeaderSize + 4 * MaxByeCount + 1 + MaxReason + 1

\* Packet::CommonHeader::count: the low 5 bits of the first byte
CommonHeaderCount(b0) == b0 % 32

\* Utils::Byte::Get4Bytes: 4 bytes in network byte order, from (0-based) offset off
Get4Bytes(d, off) ==
    d[off + 1] * 16777216 + d[off + 2] * 65536 + d[off + 3] * 256 + d[off + 4]

\* byte i (0..3) of a uint32_t in network byte order
NetByte(v, i) == (v \div (256 ^ (3 - i))) % 256

\* byte i (0..3) of a uint32_t as the host stores it
HostByte(v, i, le) == IF le THEN (v \div (256 ^ i)) % 256 ELSE NetByte(v, i)

(* The loop of ByePacket::Parse:  while ((count--) && (len - offset > 0)).
   count is a uint8_t, so the decrement of 0 wraps to 255.  The result is
   [rejected, count, offset, ssrcs] as they are when the loop is left. *)
RECURSIVE ByeParseLoop(_, _, _, _, _)
ByeParseLoop(d, len, count, offset, ssrcs) ==
    LET old    == count
        count1 == (count - 1) % 256
    IN  IF old # 0 /\ len - offset > 0
        THEN IF 4 > len - offset
             THEN [rejected |-> TRUE, count |-> count1, offset |-> offset, ssrcs |-> ssrcs]
             ELSE ByeParseLoop(d, len, count1, offset + 4, Append(ssrcs, Get4Bytes(d, offset)))
        ELSE [rejected |-> FALSE, count |-> count1, offset |-> offset, ssrcs |-> ssrcs]

(* ByePacket::Parse.  u is the value of a byte read past the end of the
   buffer.  The result is NoPacket (nullptr) or [pkt, oob]. *)
ByeParse(d, len, u) ==
    LET l == ByeParseLoop(d, len, CommonHeaderCount(d[1]), CommonHeaderSize, <<>>)
    IN  IF l.rejected THEN NoPacket
        ELSE IF l.count = 0
        THEN LET length == IF l.offset < len THEN d[l.offset + 1] ELSE u
             IN  [ pkt |-> [ ssrcs  |-> l.ssrcs,
                             reason |-> IF 1 + length <= len - l.offset
                                        THEN SubSeq(d, l.offset + 1, l.offset + length)
                                        ELSE <<>> ],
                   oob |-> ~(l.offset < len) ]
        ELSE [ pkt |-> [ssrcs |-> l.ssrcs, reason |-> <<>>], oob |-> FALSE ]

\* ByePacket::GetSize: header, SSRCs, reason with its length byte, 32-bit padded
ByeGetSize(pkt) ==
    LET n == CommonHeaderSize + 4 * Len(pkt.ssrcs)
               + (IF pkt.reason # <<>> THEN 1 + Len(pkt.reason) ELSE 0)
    IN  n + ((-n) % 4)

\* Packet::Serialize: writes the common header at data[0..3] and returns its size
PacketSerialize(pkt, out) ==
    LET words == ByeGetSize(pkt) \div 4 - 1
    IN  [ out |-> [i \in 1..Len(out) |->
                     CASE i = 1 -> 128 + Len(pkt.ssrcs)
                       [] i = 2 -> ByeType
                       [] i = 3 -> words \div 256
                       [] i = 4 -> words % 256
                       [] OTHER -> out[i]],
          offset |-> CommonHeaderSize ]

(* The SSRC loop of ByePacket::Serialize: each SSRC is copied to data (offset
   0 of the buffer) as the host stores it, and offset advances by 4. *)
RECURSIVE ByeWriteSsrcs(_, _, _, _)
ByeWriteSsrcs(out, ssrcs, offset, le) ==
    IF ssrcs = <<>> THEN [out |-> out, offset |-> offset]
    ELSE ByeWriteSsrcs(
            [i \in 1..Len(out) |-> IF i <= 4 THEN HostByte(Head(ssrcs), i - 1, le) ELSE out[i]],
            Tail(ssrcs), offset + 4, le)

(* ByePacket::Serialize(data) into the caller's buffer out.  The result is
   [out, ret]. *)
ByeSerialize(pkt, out, le) ==
    LET h  == PacketSerialize(pkt, out)
        w  == ByeWriteSsrcs(h.out, pkt.ssrcs, h.offset, le)
        \* Set1Byte(data, offset, reason.length()); the reason bytes are not copied
        hasReason == pkt.reason # <<>>
        out2 == IF hasReason
                THEN [w.out EXCEPT ![w.offset + 1] = Len(pkt.reason)]
                ELSE w.out
        offset == IF hasReason THEN w.offset + 1 + Len(pkt.reason) ELSE w.offset
        padding == (-offset) % 4
        out3 == [i \in 1..Len(out2) |->
                    IF i > offset /\ i <= offset + padding THEN 0 ELSE out2[i]]
    IN  [out |-> out3, ret |-> offset + padding]

-----------------------------------------------------------------------------
(* The inputs of ByePacket::Parse *)

\* the byte at (0-based) position i of a generated BYE body
ByeFill(i) == 16 + i

\* a BYE of len bytes announcing count SSRCs, whose byte after the SSRCs (the
\* reason length) is rlen
MkBye(len, count, rlen) ==
    [i \in 1..len |->
        LET j == i - 1 IN
        CASE j = 0 -> 128 + count
          [] j = 1 -> ByeType
          [] j = 2 -> 0
          [] j = 3 -> (len + 3) \div 4 - 1
          [] j = CommonHeaderSize + 4 * count -> rlen
          [] OTHER -> ByeFill(j)]

ByeInputs ==
    {MkBye(len, count, rlen) :
        len \in CommonHeaderSize..MaxByeLen, count \in 0..MaxByeCount, rlen \in 0..(MaxReason + 1)}

ByeInit ==
    /\ byeData \in ByeInputs
    /\ hostLE \in BOOLEAN
    /\ byePacket = NoPacket
    /\ byeOob = FALSE
    /\ byeOut = <<>>
    /\ byeRet = 0
    /\ byePc = "start"

\* byePacket = ByePacket::Parse(data, len)
ByeDoParse ==
    /\ byePc = "start"
    /\ \E u \in GarbageBytes :
         LET r == ByeParse(byeData, Len(byeData), u) IN
           /\ byePacket' = (IF r = NoPacket THEN NoPacket ELSE r.pkt)
           /\ byeOob' = (IF r = NoPacket THEN FALSE ELSE r.oob)
           /\ byePc' = (IF r = NoPacket THEN "rejected" ELSE "parsed")
    /\ UNCHANGED <<byeData, byeOut, byeRet, hostLE>>
    /\ UNCHANGED notBye

\* byeRet = byePacket->Serialize(buffer), buffer a caller's buffer of GetSize()
\* bytes with arbitrary content
ByeDoSerialize ==
    /\ byePc = "parsed"
    /\ \E u \in GarbageBytes :
         LET r == ByeSerialize(byePacket, [i \in 1..ByeGetSize(byePacket) |-> u], hostLE) IN
           /\ byeOut' = r.out
           /\ byeRet' = r.ret
    /\ byePc' = "serialized"
    /\ UNCHANGED <<byeData, byePacket, byeOob, hostLE>>
    /\ UNCHANGED notBye

ByeNext ==
    \/ ByeDoParse
    \/ ByeDoSerialize

-----------------------------------------------------------------------------
(* UnixStreamSocket *)

\* the bufferSize given to the constructor
BufferSize == 2
\* Write calls per socket
MaxWrites == 2
\* largest frame handed to Write
MaxFrameLen == 2

\* the socket after its constructor: reading started, nothing buffered
SockNew ==
    [ \* members
      isClosing      |-> FALSE,
      isClosedByPeer |-> FALSE,
      hasError       |-> FALSE,
      buffer         |-> FALSE,     \* the receiving buffer is allocated
      bufferDataLen  |-> 0,
      \* the libuv handle and its requests
      reading        |-> TRUE,      \* uv_read_start done, uv_read_stop not yet
      handle         |-> "open",    \* "open", "closing" (uv_close called), "closed"
      shutdown       |-> "none",    \* the uv_shutdown request: "none", "pending", "done"
      shutdownStatus |-> "none",    \* the status its callback got
      queue          |-> <<>>,      \* the carriers (UvWriteData::store) of the queued uv_write requests
      \* what happened so far
      uvCalls        |-> <<>>,      \* the libuv calls made by Close and onUvShutdown, in order
      atClose        |-> <<>>,      \* <<hasError, isClosedByPeer>> when Close took effect
      closedArgs     |-> <<>>,      \* the argument of each userOnUnixStreamSocketClosed call
      reads          |-> 0,         \* userOnUnixStreamRead calls made after closing began
      pipe           |-> <<>>,      \* the bytes handed to the pipe, in order
      nWrites        |-> 0,         \* Write calls made
      allocated      |-> 0,         \* carriers allocated by Write
      freed          |-> 0,         \* carriers freed by on_write
      tryWrites      |-> 0,         \* uv_try_write calls made
      frames         |-> <<>>,      \* the bytes given to Write so far while not closing, in call order
      writeFailed    |-> FALSE,     \* a queued write completed with an error
      closeCause     |-> "none",    \* what made Close take effect
      last           |-> [op |-> "none"],  \* the last call or callback, with its arguments
      deleted        |-> FALSE,     \* "delete this" ran
      aborted        |-> FALSE ]    \* MS_ABORT, or an assertion of libuv, ended the process

\* uv_read_stop(handle): always succeeds
UvReadStop(s) ==
    [s EXCEPT !.reading = FALSE, !.uvCalls = Append(@, "uv_read_stop")]

\* uv_shutdown(req, handle, on_shutdown): fails (and the caller aborts) on a
\* handle that is closing or already shut down
UvShutdown(s) ==
    IF s.handle # "open" \/ s.shutdown # "none"
    THEN [s EXCEPT !.aborted = TRUE]
    ELSE [s EXCEPT !.shutdown = "pending", !.uvCalls = Append(@, "uv_shutdown")]

\* uv_close(handle, on_close), called from `from`: libuv asserts that the
\* handle is not closing yet
UvClose(s, from) ==
    IF s.handle # "open"
    THEN [s EXCEPT !.aborted = TRUE, !.uvCalls = Append(@, from)]
    ELSE [s EXCEPT !.handle = "closing", !.reading = FALSE, !.uvCalls = Append(@, from)]

\* UnixStreamSocket::Close
CloseDeletesNow(s) ==
    IF s.isClosing THEN s
    ELSE LET s1 == UvReadStop([s EXCEPT !.isClosing = TRUE,
                                        !.atClose = <<s.hasError, s.isClosedByPeer>>])
         IN  IF ~s1.hasError /\ ~s1.isClosedByPeer
             THEN UvShutdown(s1)
             ELSE [UvClose(s1, "uv_close in Close") EXCEPT !.deleted = TRUE]

CloseNoGuard(s) ==
    LET s1 == UvReadStop([s EXCEPT !.isClosing = TRUE,
                                   !.atClose = <<s.hasError, s.isClosedByPeer>>])
    IN  IF ~s1.hasError /\ ~s1.isClosedByPeer
        THEN UvShutdown(s1)
        ELSE UvClose(s1, "uv_close in Close")

Close(s) ==
    IF s.isClosing THEN s
    ELSE LET s1 == UvReadStop([s EXCEPT !.isClosing = TRUE,
                                        !.atClose = <<s.hasError, s.isClosedByPeer>>])
         IN  IF ~s1.hasError /\ ~s1.isClosedByPeer
             THEN UvShutdown(s1)
             ELSE UvClose(s1, "uv_close in Close")

\* what uv_try_write may return for len bytes: all or part of them written,
\* UV_EAGAIN / UV_ENOSYS, or another error; with requests still queued libuv
\* writes nothing and returns UV_EAGAIN
TryWriteOutcomes(s, len) ==
    IF s.queue # <<>>
    THEN {[kind |-> "UV_EAGAIN", n |-> 0]}
    ELSE {[kind |-> "written", n |-> n] : n \in 1..len}
         \cup {[kind |-> k, n |-> 0] : k \in {"UV_EAGAIN", "UV_ENOSYS", "UV_EPIPE"}}

\* UnixStreamSocket::Write(data, len) with uv_try_write returning `written`
WriteNoClosingCheck(s, frame, written) ==
    IF Len(frame) = 0 THEN s
    ELSE
    LET len == Len(frame)
        s0  == [s EXCEPT !.pipe = @ \o SubSeq(frame, 1, written.n),
                         !.tryWrites = @ + 1]
    IN  IF written.kind = "written" /\ written.n = len THEN s0
        ELSE IF written.kind # "written" /\ written.kind \notin {"UV_EAGAIN", "UV_ENOSYS"}
        THEN Close(s0)
        ELSE LET w == IF written.kind = "written" THEN written.n ELSE 0
             IN  [s0 EXCEPT !.queue = Append(@, SubSeq(frame, w + 1, len)),
                            !.allocated = @ + 1]

WriteStoreHead(s, frame, written) ==
    IF s.isClosing THEN s
    ELSE IF Len(frame) = 0 THEN s
    ELSE
    LET len == Len(frame)
        s0  == [s EXCEPT !.pipe = @ \o SubSeq(frame, 1, written.n),
                         !.tryWrites = @ + 1]
    IN  IF written.kind = "written" /\ written.n = len THEN s0
        ELSE IF written.kind # "written" /\ written.kind \notin {"UV_EAGAIN", "UV_ENOSYS"}
        THEN Close(s0)
        ELSE LET w == IF written.kind = "written" THEN written.n ELSE 0
             IN  [s0 EXCEPT !.queue = Append(@, SubSeq(frame, 1, len - w)),
                            !.allocated = @ + 1]

WriteWholeFrame(s, frame, written) ==
    IF s.isClosing THEN s
    ELSE IF Len(frame) = 0 THEN s
    ELSE
    LET len == Len(frame)
        s0  == [s EXCEPT !.pipe = @ \o SubSeq(frame, 1, written.n),
                         !.tryWrites = @ + 1]
    IN  IF written.kind = "written" /\ written.n = len THEN s0
        ELSE IF written.kind # "written" /\ written.kind \notin {"UV_EAGAIN", "UV_ENOSYS"}
        THEN Close(s0)
        ELSE [s0 EXCEPT !.queue = Append(@, frame), !.allocated = @ + 1]

Write(s, frame, written) ==
    IF s.isClosing THEN s
    ELSE IF Len(frame) = 0 THEN s
    ELSE
    LET len == Len(frame)
        s0  == [s EXCEPT !.pipe = @ \o SubSeq(frame, 1, written.n),
                         !.tryWrites = @ + 1]
    IN  IF written.kind = "written" /\ written.n = len THEN s0
        ELSE IF written.kind # "written" /\ written.kind \notin {"UV_EAGAIN", "UV_ENOSYS"}
        THEN Close(s0)
        ELSE
        LET w == IF written.kind = "written" THEN written.n ELSE 0
            pending_len == len - w
            store == SubSeq(frame, w + 1, w + pending_len)
        IN  \* uv_write(): fails (MS_ABORT) only on a closed handle
            IF s0.handle # "open"
            THEN [s0 EXCEPT !.aborted = TRUE]
            ELSE [s0 EXCEPT !.queue = Append(@, store), !.allocated = @ + 1]

\* UnixStreamSocket::onUvReadAlloc: the length of the region offered to libuv
\* (it starts at buffer + bufferDataLen)
ReadAllocLenWhole(s) == BufferSize

ReadAllocLen(s) ==
    IF BufferSize > s.bufferDataLen THEN BufferSize - s.bufferDataLen ELSE 0

\* the offset in the buffer where that region starts
ReadAllocBase(s) == s.bufferDataLen

onUvReadAlloc(s) == [s EXCEPT !.buffer = TRUE]

\* what libuv may report to on_read after offering a region of n bytes
ReadOutcomes(n) ==
    IF n = 0
    THEN {[kind |-> "UV_ENOBUFS", n |-> 0]}
    ELSE {[kind |-> "data", n |-> k] : k \in 0..n}
         \cup {[kind |-> k, n |-> 0] : k \in {"UV_EOF", "UV_ECONNRESET", "UV_EIO"}}

\* UnixStreamSocket::onUvRead(nread, buf); userOnUnixStreamRead leaves `keep`
\* bytes in the buffer
onUvReadErrorIsPeer(s, nread, keep) ==
    IF nread.kind = "data" /\ nread.n = 0 THEN s
    ELSE IF nread.kind = "data"
    THEN [s EXCEPT !.bufferDataLen = IF keep <= @ + nread.n THEN keep ELSE @ + nread.n,
                   !.reads = IF s.isClosing THEN @ + 1 ELSE @]
    ELSE Close([s EXCEPT !.isClosedByPeer = TRUE])

onUvRead(s, nread, keep) ==
    IF nread.kind = "data" /\ nread.n = 0 THEN s
    ELSE IF nread.kind = "data"
    THEN [s EXCEPT !.bufferDataLen = IF keep <= @ + nread.n THEN keep ELSE @ + nread.n,
                   !.reads = IF s.isClosing THEN @ + 1 ELSE @]
    ELSE IF nread.kind \in {"UV_EOF", "UV_ECONNRESET"}
    THEN Close([s EXCEPT !.isClosedByPeer = TRUE])
    ELSE Close([s EXCEPT !.hasError = TRUE])

\* UnixStreamSocket::onUvWriteError(error)
onUvWriteError(s, error) ==
    IF s.isClosing THEN s
    ELSE IF error \in {"UV_EPIPE", "UV_ENOTCONN"}
    THEN Close(s)
    ELSE Close([s EXCEPT !.hasError = TRUE])

\* on_write(req, status) for the request at the head of the queue: the
\* carrier is freed, then the socket is told about an error
on_writeNoFree(s, status) ==
    LET s1 == [s EXCEPT !.queue = Tail(@),
                        !.pipe = IF status = "ok" THEN @ \o Head(s.queue) ELSE @]
    IN  IF status # "ok" THEN onUvWriteError(s1, status) ELSE s1

on_write(s, status) ==
    LET s1 == [s EXCEPT !.queue = Tail(@),
                        !.freed = @ + 1,
                        !.pipe = IF status = "ok" THEN @ \o Head(s.queue) ELSE @]
    IN  IF status # "ok" THEN onUvWriteError(s1, status) ELSE s1

\* UnixStreamSocket::onUvShutdown(req, status)
onUvShutdownIfOk(s, status) ==
    LET s1 == [s EXCEPT !.shutdown = "done", !.shutdownStatus = status]
    IN  IF status = "ok" THEN UvClose(s1, "uv_close in onUvShutdown") ELSE s1

onUvShutdown(s, status) ==
    UvClose([s EXCEPT !.shutdown = "done", !.shutdownStatus = status],
            "uv_close in onUvShutdown")

\* UnixStreamSocket::onUvClosed
onUvClosed(s) ==
    [s EXCEPT !.handle = "closed",
              !.closedArgs = Append(@, s.isClosedByPeer),
              !.deleted = TRUE]

\* the statuses libuv may give a write callback
WriteStatuses == {"ok", "UV_EPIPE", "UV_ENOTCONN", "UV_EIO"}

\* the statuses libuv may give a shutdown callback
ShutdownStatuses == {"ok", "UV_EPIPE", "UV_ENOTCONN", "UV_EIO"}

\* the frame of the k-th Write call, of len bytes
Frame(k, len) == [i \in 1..len |-> 10 * k + i]

\* `after` with what made Close take effect, when it did between the two
Began(before, after, cause) ==
    IF ~before.isClosing /\ after.isClosing
    THEN [after EXCEPT !.closeCause = cause]
    ELSE after

\* the owner may use the socket until it is told that it is closed
SockAlive == ~sock.deleted /\ ~sock.aborted

SockInit == sock = SockNew

\* the owner calls Close()
SockClose ==
    /\ SockAlive
    /\ sock' = Began(sock, [Close(sock) EXCEPT !.last = [op |-> "Close"]], "Close")
    /\ UNCHANGED notSock

\* the owner calls Write(data, len)
SockWrite ==
    /\ SockAlive
    /\ sock.nWrites < MaxWrites
    /\ \E len \in 0..MaxFrameLen :
         \E written \in TryWriteOutcomes(sock, len) :
            LET frame == Frame(sock.nWrites + 1, len) IN
            sock' = Began(sock,
                          [Write(sock, frame, written) EXCEPT
                              !.nWrites = @ + 1,
                              !.frames = IF sock.isClosing THEN @ ELSE @ \o frame,
                              !.last = [op |-> "Write", frame |-> frame, written |-> written]],
                          "uv_try_write error")
    /\ UNCHANGED notSock

\* libuv reads from the pipe: on_alloc, then on_read
SockRead ==
    /\ SockAlive
    /\ sock.handle = "open"
    /\ sock.reading
    /\ \E nread \in ReadOutcomes(ReadAllocLen(sock)) :
         \E keep \in 0..BufferSize :
            sock' = Began(sock,
                          [onUvRead(onUvReadAlloc(sock), nread, keep) EXCEPT
                              !.last = [op |-> "on_read", base |-> ReadAllocBase(sock),
                                        len |-> ReadAllocLen(sock), nread |-> nread]],
                          IF nread.kind \in {"UV_EOF", "UV_ECONNRESET"}
                          THEN "peer closed" ELSE "read error")
    /\ UNCHANGED notSock

\* libuv completes the write request at the head of the queue: with any status
\* while the handle is open, with UV_ECANCELED once it is closing
SockWriteDone ==
    /\ ~sock.aborted
    /\ sock.handle \in {"open", "closing"}
    /\ sock.queue # <<>>
    /\ \E status \in (IF sock.handle = "closing" THEN {"UV_ECANCELED"} ELSE WriteStatuses) :
         sock' = Began(sock,
                       [on_write(sock, status) EXCEPT
                           !.writeFailed = @ \/ status # "ok",
                           !.last = [op |-> "on_write", status |-> status]],
                       "write error")
    /\ UNCHANGED notSock

\* libuv completes the shutdown request, after the queued writes
SockShutdownDone ==
    /\ ~sock.aborted
    /\ sock.shutdown = "pending"
    /\ sock.queue = <<>>
    /\ \E status \in ShutdownStatuses :
         sock' = [onUvShutdown(sock, status) EXCEPT
                     !.last = [op |-> "on_shutdown", status |-> status]]
    /\ UNCHANGED notSock

\* libuv runs the close callback, after the callbacks of the cancelled requests
SockClosed ==
    /\ ~sock.aborted
    /\ sock.handle = "closing"
    /\ sock.queue = <<>>
    /\ sock.shutdown # "pending"
    /\ sock' = [onUvClosed(sock) EXCEPT !.last = [op |-> "on_close"]]
    /\ UNCHANGED notSock

SockNext ==
    \/ SockClose
    \/ SockWrite
    \/ SockRead
    \/ SockWriteDone
    \/ SockShutdownDone
    \/ SockClosed

-----------------------------------------------------------------------------
(* Room *)

\* peer ids a room is given
MaxPeers == 3
\* receivers opened in a room
MaxReceivers == 2
\* senders created in a room
MaxSenders == 3

\* the sequences that enumerate the set S once each: the orders in which an
\* unordered container holding S may be iterated
Orders(S) ==
    {f \in [1..Cardinality(S) -> S] : \A i, j \in 1..Cardinality(S) : f[i] = f[j] => i = j}

\* m without the key k (unordered_map::erase)
MapErase(m, k) == [x \in (DOMAIN m) \ {k} |-> m[x]]

\* m with m[k] = v (unordered_map::operator[] assignment)
MapPut(m, k, v) == [x \in (DOMAIN m) \cup {k} |-> IF x = k THEN v ELSE m[x]]

\* the room after its constructor
RoomNew ==
    [ peers                    |-> {},     \* keys of Room::peers
      mapRtpReceiverRtpSenders |-> <<>>,   \* receiver -> set of senders
      mapRtpSenderRtpReceiver  |-> <<>>,   \* sender -> receiver
      \* the peers' own collections
      receivers                |-> <<>>,   \* receiver id -> owning peer (0 once closed), for every receiver opened
      senders                  |-> <<>>,   \* sender id -> owning peer (0 once closed), for every sender created
      liveReceivers            |-> {},     \* receivers not closed
      liveSenders              |-> {},     \* senders not closed
      \* what happened so far
      peerOrder                |-> <<>>,   \* the peers in the order they were added
      dispatched               |-> <<>> ]  \* <<receiver, its sender set, the sender of each Send call in order>>
                                           \* for the packet dispatched in this turn of the loop

\* AddPeer(peerId): the caller rejected an id that already exists
AddPeer(rm, peerId) ==
    [rm EXCEPT !.peers = @ \cup {peerId}, !.peerOrder = Append(@, peerId)]

\* Room::onPeerRtpSenderClosed(peer, rtpSender); tolerates "already absent"
onPeerRtpSenderClosedKeepsInSet(rm, rtpSender) ==
    IF rtpSender \notin DOMAIN rm.mapRtpSenderRtpReceiver THEN rm
    ELSE [rm EXCEPT !.mapRtpSenderRtpReceiver = MapErase(@, rtpSender)]

onPeerRtpSenderClosed(rm, rtpSender) ==
    IF rtpSender \notin DOMAIN rm.mapRtpSenderRtpReceiver THEN rm
    ELSE LET rtpReceiver == rm.mapRtpSenderRtpReceiver[rtpSender]
             rr == rm.mapRtpReceiverRtpSenders
         IN  [rm EXCEPT
                !.mapRtpReceiverRtpSenders =
                    IF rtpReceiver \in DOMAIN rr
                    THEN MapPut(rr, rtpReceiver, rr[rtpReceiver] \ {rtpSender})
                    ELSE rr,
                !.mapRtpSenderRtpReceiver = MapErase(@, rtpSender)]

\* RtpSender::Close(): the sender is closed and its peer tells the room
CloseSender(rm, rtpSender) ==
    onPeerRtpSenderClosed([rm EXCEPT !.liveSenders = @ \ {rtpSender},
                                     !.senders[rtpSender] = 0], rtpSender)

RECURSIVE CloseSenders(_, _)
\* close every sender of the set S
CloseSenders(rm, S) ==
    IF S = {} THEN rm
    ELSE LET x == CHOOSE y \in S : TRUE
         IN  CloseSenders(CloseSender(rm, x), S \ {x})

\* Room::onPeerRtpReceiverClosed(peer, rtpReceiver)
onPeerRtpReceiverClosed(rm, rtpReceiver) ==
    IF rtpReceiver \notin DOMAIN rm.mapRtpReceiverRtpSenders THEN rm
    ELSE LET rm1 == CloseSenders(rm, rm.mapRtpReceiverRtpSenders[rtpReceiver])
         IN  [rm1 EXCEPT !.mapRtpReceiverRtpSenders = MapErase(@, rtpReceiver)]

\* RtpReceiver::Close(): the receiver is closed and its peer tells the room
CloseReceiver(rm, rtpReceiver) ==
    onPeerRtpReceiverClosed([rm EXCEPT !.liveReceivers = @ \ {rtpReceiver},
                                       !.receivers[rtpReceiver] = 0], rtpReceiver)

RECURSIVE CloseReceivers(_, _)
\* close every receiver of the set R
CloseReceivers(rm, R) ==
    IF R = {} THEN rm
    ELSE LET x == CHOOSE y \in R : TRUE
         IN  CloseReceivers(CloseReceiver(rm, x), R \ {x})

\* the live receivers / senders that peer owns
ReceiversOf(rm, peer) == {r \in rm.liveReceivers : rm.receivers[r] = peer}

SendersOf(rm, peer) == {x \in rm.liveSenders : rm.senders[x] = peer}

\* Room::onPeerClosed(peer), after Peer::Close() closed what the peer owns
onPeerClosed(rm, peer) ==
    LET rm1 == CloseReceivers(rm, ReceiversOf(rm, peer))
        rm2 == CloseSenders(rm1, SendersOf(rm1, peer))
    IN  [rm2 EXCEPT !.peers = @ \ {peer}]

RECURSIVE AddSenders(_, _, _)
\* one new sender per peer of `order`, each with a fresh id, mirroring rtpReceiver
AddSenders(rm, rtpReceiver, order) ==
    IF order = <<>> THEN rm
    ELSE LET rtpSender == Len(rm.senders) + 1
             rr == rm.mapRtpReceiverRtpSenders
             rm1 == [rm EXCEPT
                        !.senders = Append(@, Head(order)),
                        !.liveSenders = @ \cup {rtpSender},
                        !.mapRtpSenderRtpReceiver = MapPut(@, rtpSender, rtpReceiver),
                        !.mapRtpReceiverRtpSenders =
                            MapPut(rr, rtpReceiver,
                                   (IF rtpReceiver \in DOMAIN rr THEN rr[rtpReceiver] ELSE {})
                                   \cup {rtpSender})]
         IN  AddSenders(rm1, rtpReceiver, Tail(order))

\* Room::onPeerRtpReceiverParameters(peer, rtpReceiver): `order` is the order
\* in which the iteration over Room::peers meets the other peers
onPeerRtpReceiverParameters(rm, peer, rtpReceiver, order) ==
    LET rr == rm.mapRtpReceiverRtpSenders
        rm1 == IF rtpReceiver \in DOMAIN rr THEN rm
               ELSE [rm EXCEPT !.mapRtpReceiverRtpSenders = MapPut(rr, rtpReceiver, {})]
    IN  AddSenders(rm1, rtpReceiver, order)

\* Room::onPeerRtpPacket(peer, rtpReceiver, packet): Send(packet) on each
\* sender of the receiver's set, met in the order `order`
onPeerRtpPacket(rm, rtpReceiver, order) ==
    [rm EXCEPT !.dispatched =
        <<rtpReceiver, rm.mapRtpReceiverRtpSenders[rtpReceiver], order>>]

\* a new turn of the loop: no Send call made yet
Turn(rm) == [rm EXCEPT !.dispatched = <<>>]

RoomInit == room = RoomNew

\* a peer joins; peer ids are given out in increasing order
RoomAddPeer ==
    /\ Len(room.peerOrder) < MaxPeers
    /\ room' = AddPeer(Turn(room), Len(room.peerOrder) + 1)
    /\ UNCHANGED notRoom

\* a peer opens a receiver and sets its parameters, or sets the parameters of
\* one of its receivers again
RoomReceiverParameters ==
    /\ \E peer \in room.peers :
         \E rtpReceiver \in ReceiversOf(room, peer) \cup {Len(room.receivers) + 1} :
            /\ rtpReceiver <= MaxReceivers
            /\ Len(room.senders) + Cardinality(room.peers \ {peer}) <= MaxSenders
            /\ \E order \in Orders(room.peers \ {peer}) :
                 LET rm1 == IF rtpReceiver > Len(room.receivers)
                            THEN [Turn(room) EXCEPT !.receivers = Append(@, peer),
                                              !.liveReceivers = @ \cup {rtpReceiver}]
                            ELSE Turn(room)
                 IN  room' = onPeerRtpReceiverParameters(rm1, peer, rtpReceiver, order)
    /\ UNCHANGED notRoom

\* a receiver is closed
RoomReceiverClosed ==
    /\ \E rtpReceiver \in room.liveReceivers :
         room' = CloseReceiver(Turn(room), rtpReceiver)
    /\ UNCHANGED notRoom

\* a sender is closed
RoomSenderClosed ==
    /\ \E rtpSender \in room.liveSenders :
         room' = CloseSender(Turn(room), rtpSender)
    /\ UNCHANGED notRoom

\* a peer is closed
RoomPeerClosed ==
    /\ \E peer \in room.peers :
         room' = onPeerClosed(Turn(room), peer)
    /\ UNCHANGED notRoom

\* a receiver hands an RTP packet to the room
RoomRtpPacket ==
    /\ \E rtpReceiver \in room.liveReceivers \cap DOMAIN room.mapRtpReceiverRtpSenders :
         \E order \in Orders(room.mapRtpReceiverRtpSenders[rtpReceiver]) :
            room' = onPeerRtpPacket(room, rtpReceiver, order)
    /\ UNCHANGED notRoom

RoomNext ==
    \/ RoomAddPeer
    \/ RoomReceiverParameters
    \/ RoomReceiverClosed
    \/ RoomSenderClosed
    \/ RoomPeerClosed
    \/ RoomRtpPacket

-----------------------------------------------------------------------------
(* Specifications: one per part; the other parts do not move *)

RtpIdle ==
    /\ data = <<>>
    /\ heap = <<>>
    /\ dst = <<>>
    /\ packet = NoPacket
    /\ cloned = NoPacket
    /\ rtpPc = "idle"
    /\ lastOp = "none"
    /\ nSerialize = 0
    /\ nClone = 0
    /\ snap = NoPacket

ByeIdle ==
    /\ byeData = <<>>
    /\ hostLE = TRUE
    /\ byePacket = NoPacket
    /\ byeOob = FALSE
    /\ byeOut = <<>>
    /\ byeRet = 0
    /\ byePc = "idle"

SockIdle == sock = [idle |-> TRUE]

RoomIdle == room = [idle |-> TRUE]

InitRtp == RtpInit /\ ByeIdle /\ SockIdle /\ RoomIdle

InitBye == ByeInit /\ RtpIdle /\ SockIdle /\ RoomIdle

InitSock == SockInit /\ RtpIdle /\ ByeIdle /\ RoomIdle

InitRoom == RoomInit /\ RtpIdle /\ ByeIdle /\ SockIdle

SpecRtp == InitRtp /\ [][RtpNext]_vars

\* Parse alone, over every input
SpecRtpParse == InitRtp /\ [][RtpParse]_vars

SpecBye == InitBye /\ [][ByeNext]_vars

SpecSocket == InitSock /\ [][SockNext]_vars

SpecRoom == InitRoom /\ [][RoomNext]_vars

\* libuv runs the callback of every request it accepted, and the close callback
SpecSocketFair ==
    /\ SpecSocket
    /\ WF_vars(SockWriteDone)
    /\ WF_vars(SockShutdownDone)
    /\ WF_vars(SockClosed)

-----------------------------------------------------------------------------
(* Claims about RtpPacket *)

\* the bytes of a packet's raw buffer
RawBytes(q) == BufBytes(q.raw, data, heap, dst)

\* C1: for every buffer that Parse accepts, Serialize on the unmutated packet
\* yields a raw buffer of the same length whose bytes equal the input's, byte
\* for byte, padding bytes included.
C1_SerializeRoundTrip ==
    (lastOp = "Serialize" /\ nSerialize = 1 /\ rtpPc = "parsed")
        => /\ packet.length = Len(data)
           /\ RawBytes(packet) = data

\* the conditions of the claim C2 under which a buffer is accepted
AcceptedByRule(d, len) ==
    IF ~(len >= 12 /\ d[1] \div 64 = 2) THEN FALSE
    ELSE LET cc == d[1] % 16
             x  == (d[1] \div 16) % 2 = 1
             p  == (d[1] \div 32) % 2 = 1
             afterCsrc == 12 + 4 * cc
         IN  /\ len >= afterCsrc
             /\ x => len >= afterCsrc + 4
             /\ x => len >= afterCsrc + 4 + 4 * (d[afterCsrc + 3] * 256 + d[afterCsrc + 4])
             /\ p => LET ext  == IF x THEN 4 + 4 * (d[afterCsrc + 3] * 256 + d[afterCsrc + 4]) ELSE 0
                         tail == len - afterCsrc - ext
                     IN  tail >= 1 /\ d[len] >= 1 /\ d[len] <= tail

\* a buffer with csrc_count 15, the extension flag and extension length 65535
BigLen == 12 + 4 * 15 + 4 + 4 * 65535

BigInput == [i \in 1..BigLen |-> IF i = 1 THEN 128 + 16 + 15 ELSE 255]

\* C2: Parse returns a packet exactly when the buffer has at least 12 bytes,
\* version 2, room for the CSRC list, room for the announced header extension,
\* and, with the padding flag, a non-empty tail whose last byte p has
\* 1 <= p <= tail size; csrc_count 15 with extension length 65535 is accepted
\* when the buffer holds it all and rejected when one byte is missing.
C2_ParseAccepts ==
    /\ rtpPc # "start" =>
          ((packet # NoPacket) <=> AcceptedByRule(data, Len(data)))
    /\ rtpPc # "start" => Parse(BigInput, BigLen) # NoPacket
    /\ rtpPc # "start" => Parse(BigInput, BigLen - 1) = NoPacket

\* an input with a CSRC, an extension value and padding was accepted
C2_Witness ==
    /\ rtpPc = "parsed"
    /\ packet.csrcList # NULL
    /\ packet.extensionHeader # NULL
    /\ GetExtensionHeaderLength(packet, data, heap, dst, 0) = 4
    /\ packet.payloadPadding = 2
    /\ packet.payloadLength = 1

\* the length equation of a packet, read from its fields and its header
LengthEquation(q) ==
    LET cc == HeaderCsrcCount(Rd(q.header, 0, data, heap, dst, 0))
    IN  HeaderSize + 4 * cc
          + (IF q.extensionHeader # NULL
             THEN 4 + GetExtensionHeaderLength(q, data, heap, dst, 0) ELSE 0)
          + q.payloadLength + q.payloadPadding = q.length

PaddingInRange(q) ==
    HeaderPadding(Rd(q.header, 0, data, heap, dst, 0)) = 1
        => q.payloadPadding >= 1 /\ q.payloadPadding <= q.payloadLength + q.payloadPadding

\* C3: every packet reachable by Parse followed by any sequence of Serialize
\* and Clone calls satisfies the length equation, no MS_ASSERT length check
\* fails, and with the padding flag set payloadPadding is in [1, tail size].
C3_LengthInvariant ==
    /\ rtpPc # "aborted"
    /\ \A q \in {packet, cloned} \ {NoPacket} : LengthEquation(q) /\ PaddingInRange(q)

\* C4: Serialize produces one buffer laid out as header, CSRC list, extension,
\* payload and padding region, whose length is the sum of the parts, in which
\* every padding byte before the final one is zero and the final one is the
\* padding length.
C4_SerializeLayout ==
    (lastOp = "Serialize" /\ rtpPc = "parsed")
        => LET b    == RawBytes(packet)
               body == packet.length - packet.payloadPadding
           IN  /\ Len(b) = packet.length
               /\ LengthEquation(packet)
               /\ \A i \in 1..body : b[i] = data[i]
               /\ \A i \in (body + 1)..(packet.length - 1) : b[i] = 0
               /\ packet.payloadPadding # 0 => b[packet.length] = packet.payloadPadding

\* the offset of a part inside its packet's raw buffer ("absent" when null)
OffsetIn(q, part) == IF part = NULL THEN "absent" ELSE part.off - q.raw.off

\* C5: Clone(dst) leaves the packet and its raw bytes unchanged, makes
\* dst[0..length) equal to the raw bytes, and returns a packet over dst with
\* the same length, payloadLength and payloadPadding, whose header, extension
\* header and payload sit at the same offsets as in the cloned packet.
C5_CloneCopies ==
    lastOp = "Clone"
        => /\ rtpPc = "parsed"
           /\ packet = snap.pkt
           /\ RawBytes(packet) = snap.raw
           /\ cloned # NoPacket
           /\ cloned.raw = Ptr("dst", 0, 0)
           /\ SubSeq(dst, 1, packet.length) = RawBytes(packet)
           /\ cloned.length = packet.length
           /\ cloned.payloadLength = packet.payloadLength
           /\ cloned.payloadPadding = packet.payloadPadding
           /\ OffsetIn(cloned, cloned.header) = OffsetIn(packet, packet.header)
           /\ OffsetIn(cloned, cloned.extensionHeader) = OffsetIn(packet, packet.extensionHeader)
           /\ OffsetIn(cloned, cloned.payload) = OffsetIn(packet, packet.payload)

-----------------------------------------------------------------------------
(* Claims about ByePacket *)

\* the item count announced by the input's common header
ByeCount == CommonHeaderCount(byeData[1])

\* the SSRCs on the wire, when the input holds all of them
WireSsrcs == [k \in 1..ByeCount |-> Get4Bytes(byeData, CommonHeaderSize + 4 * (k - 1))]

\* the position (0-based) of the reason length byte
ReasonPos == CommonHeaderSize + 4 * ByeCount

\* the input holds item-count SSRCs, a length byte L and L reason bytes
ByeHasReason ==
    /\ Len(byeData) > ReasonPos
    /\ Len(byeData) >= ReasonPos + 1 + byeData[ReasonPos + 1]

\* C6: Parse of a BYE holding item-count SSRCs, a length byte L and L reason
\* bytes returns a packet with exactly those SSRCs in wire order and exactly
\* those L bytes as its reason; a BYE that ends after its SSRCs yields an
\* empty reason and no read past the end of the buffer.
C6_ByeParseReason ==
    /\ (byePc # "start" /\ ByeHasReason)
          => /\ byePacket # NoPacket
             /\ byePacket.ssrcs = WireSsrcs
             /\ byePacket.reason =
                  SubSeq(byeData, ReasonPos + 2, ReasonPos + 1 + byeData[ReasonPos + 1])
    /\ (byePc # "start" /\ Len(byeData) = ReasonPos)
          => /\ byePacket # NoPacket
             /\ byePacket.ssrcs = WireSsrcs
             /\ byePacket.reason = <<>>
             /\ ~byeOob

\* C7: Parse returns no packet when the buffer holds fewer than item-count
\* complete SSRCs after the common header, and never a packet with fewer
\* SSRCs than the header announces.
C7_ByeTruncated ==
    byePc # "start"
        => /\ Len(byeData) - CommonHeaderSize < 4 * ByeCount => byePacket = NoPacket
           /\ byePacket # NoPacket => Len(byePacket.ssrcs) >= ByeCount

\* C8: for every BYE that Parse accepts (here: one that holds all its SSRCs
\* and ends after them), Serialize leaves the common header
\* in bytes 0..3, then each SSRC in order in network byte order, then the
\* reason length byte and the reason bytes, then zero bytes up to a multiple
\* of 4, and returns that multiple of 4.
C8_ByeSerializeRoundTrip ==
    (byePc = "serialized" /\ Len(byeData) = ReasonPos /\ Len(byePacket.ssrcs) = ByeCount)
        => LET n   == Len(byePacket.ssrcs)
               r   == byePacket.reason
               end == CommonHeaderSize + 4 * n + (IF r # <<>> THEN 1 + Len(r) ELSE 0)
           IN  /\ byeRet = end + ((-end) % 4)
               /\ Len(byeOut) >= byeRet
               /\ \A i \in 1..CommonHeaderSize : byeOut[i] = byeData[i]
               /\ \A k \in 1..n : \A i \in 0..3 :
                     byeOut[CommonHeaderSize + 4 * (k - 1) + i + 1] = NetByte(byePacket.ssrcs[k], i)
               /\ r # <<>> =>
                     /\ byeOut[CommonHeaderSize + 4 * n + 1] = Len(r)
                     /\ \A i \in 1..Len(r) : byeOut[CommonHeaderSize + 4 * n + 1 + i] = r[i]
               /\ \A i \in (end + 1)..byeRet : byeOut[i] = 0

-----------------------------------------------------------------------------
(* UnixStreamSocket: closing *)

\* the uv_close calls made so far
UvCloseCalls ==
    Cardinality({i \in 1..Len(sock.uvCalls) :
                    sock.uvCalls[i] \in {"uv_close in Close", "uv_close in onUvShutdown"}})

\* uv_close is issued at most once, on an open handle, and the owner is told
\* at most once, and only after closing began
ClosedAtMostOnce ==
    /\ UvCloseCalls <= 1
    /\ Len(sock.closedArgs) <= 1
    /\ (sock.closedArgs # <<>> => sock.isClosing /\ UvCloseCalls = 1)
    /\ ~sock.aborted

\* C9: in every execution, under any interleaving of Close calls, Write
\* calls, read events (data, EOF, ECONNRESET, error), write completions and
\* the shutdown completion, uv_close is issued at most once, the owner's
\* userOnUnixStreamSocketClosed never runs twice, and, when libuv delivers the
\* callbacks of its requests, it eventually runs once closing has begun.
C9_ClosedExactlyOnce ==
    /\ []ClosedAtMostOnce
    /\ (sock.isClosing ~> (Len(sock.closedArgs) = 1))

\* a socket closed gracefully with a failed shutdown after a queued write
\* completed, its owner told
C9_Witness ==
    /\ sock.deleted
    /\ Len(sock.closedArgs) = 1
    /\ sock.shutdownStatus = "UV_EIO"
    /\ sock.freed >= 1

\* C10: when Close takes effect with no error recorded and the peer not
\* closed, the libuv calls are uv_read_stop, then uv_shutdown, and uv_close
\* comes only from onUvShutdown, whatever the status of the shutdown; with an
\* error recorded or the peer closed, they are uv_read_stop then uv_close
\* within Close, and no shutdown is ever issued.
C10_CloseOrder ==
    sock.isClosing =>
        IF sock.atClose = <<FALSE, FALSE>>
        THEN /\ sock.shutdown \in {"pending", "done"}
             /\ sock.shutdown = "pending" =>
                    sock.uvCalls = <<"uv_read_stop", "uv_shutdown">>
             /\ sock.shutdown = "done" =>
                    sock.uvCalls = <<"uv_read_stop", "uv_shutdown", "uv_close in onUvShutdown">>
        ELSE /\ sock.atClose \in {<<TRUE, FALSE>>, <<FALSE, TRUE>>}
             /\ sock.shutdown = "none"
             /\ sock.uvCalls = <<"uv_read_stop", "uv_close in Close">>

\* a graceful close whose shutdown completed with an error, the handle closed
\* from the callback
C10_Witness ==
    /\ sock.atClose = <<FALSE, FALSE>>
    /\ sock.shutdownStatus = "UV_EPIPE"
    /\ sock.uvCalls = <<"uv_read_stop", "uv_shutdown", "uv_close in onUvShutdown">>

-----------------------------------------------------------------------------
(* UnixStreamSocket: write errors *)

\* C11: when a queued write completes with UV_EPIPE or UV_ENOTCONN on a socket
\* that was not closing, the socket is marked errored (hasError) and closed
\* directly: uv_read_stop then uv_close within Close, no uv_shutdown.
C11_WriteErrorMarksErrored ==
    (/\ sock.last.op = "on_write"
     /\ sock.last.status \in {"UV_EPIPE", "UV_ENOTCONN"}
     /\ sock.closeCause = "write error") =>
        /\ sock.isClosing
        /\ sock.hasError
        /\ sock.shutdown = "none"
        /\ sock.uvCalls = <<"uv_read_stop", "uv_close in Close">>

\* the step is a Write(data, len) call: its frame and the value uv_try_write
\* returned are those recorded in last
IsWriteCall == sock'.nWrites = sock.nWrites + 1

\* C12: for every Write(data, len) with len > 0 on a socket that is not
\* closing: when uv_try_write takes all len bytes nothing is queued; when it
\* takes w < len of them (w = 0 for UV_EAGAIN / UV_ENOSYS) exactly one request
\* is queued, and its carrier holds exactly data[w..len); on any other error
\* nothing is queued and the socket starts closing.
C12_WriteEnqueuesRemainder ==
    [][ (IsWriteCall /\ ~sock.isClosing /\ Len(sock'.last.frame) > 0) =>
          LET frame   == sock'.last.frame
              written == sock'.last.written
              len     == Len(frame)
              w       == IF written.kind = "written" THEN written.n ELSE 0
          IN  IF written.kind = "written" /\ w = len
              THEN /\ sock'.queue = sock.queue
                   /\ sock'.allocated = sock.allocated
                   /\ ~sock'.isClosing
              ELSE IF written.kind \in {"written", "UV_EAGAIN", "UV_ENOSYS"}
              THEN /\ sock'.queue = Append(sock.queue, [i \in 1..(len - w) |-> frame[w + i]])
                   /\ sock'.allocated = sock.allocated + 1
                   /\ ~sock'.isClosing
              ELSE /\ sock'.queue = sock.queue
                   /\ sock'.allocated = sock.allocated
                   /\ sock'.isClosing
    ]_vars

\* a Write of two bytes of which uv_try_write took one: the other is queued
C12_Witness ==
    /\ sock.last.op = "Write"
    /\ Len(sock.last.frame) = 2
    /\ sock.last.written = [kind |-> "written", n |-> 1]
    /\ sock.queue = <<<<sock.last.frame[2]>>>>
    /\ ~sock.isClosing

-----------------------------------------------------------------------------
(* Room: routing *)

\* the packet of this turn was received on a receiver of P1 whose senders are
\* one on P2 and one on P3, the peers having been added in the order P1, P2, P3
FanOutScenario ==
    /\ room.dispatched # <<>>
    /\ room.peerOrder = <<1, 2, 3>>
    /\ room.peers = {1, 2, 3}
    /\ room.receivers[room.dispatched[1]] = 1
    /\ Cardinality(room.dispatched[2]) = 2
    /\ {room.senders[x] : x \in room.dispatched[2]} = {2, 3}

\* C13: with peers added in the order P1, P2, P3 and P1's receiver r having the
\* senders s2 (on P2) and s3 (on P3), dispatching one packet received on r
\* calls Send once on s2 and once on s3, s2 first.
C13_FanOutOrder ==
    FanOutScenario =>
        LET sends == room.dispatched[3]
        IN  /\ Len(sends) = 2
            /\ room.senders[sends[1]] = 2
            /\ room.senders[sends[2]] = 3

\* C14: after any sequence of peer joins, receiver-parameter callbacks,
\* receiver closes, sender closes and peer closes, every sender in
\* mapRtpReceiverRtpSenders[r] has mapRtpSenderRtpReceiver[sender] = r, no sender
\* is in two receivers' sets, and neither map refers to a closed receiver or
\* sender.
C14_MapsAgree ==
    LET rr == room.mapRtpReceiverRtpSenders
        sr == room.mapRtpSenderRtpReceiver
    IN  /\ \A r \in DOMAIN rr : \A x \in rr[r] : x \in DOMAIN sr /\ sr[x] = r
        /\ \A r1, r2 \in DOMAIN rr : r1 # r2 => rr[r1] \cap rr[r2] = {}
        /\ DOMAIN rr \subseteq room.liveReceivers
        /\ \A r \in DOMAIN rr : rr[r] \subseteq room.liveSenders
        /\ DOMAIN sr \subseteq room.liveSenders
        /\ \A x \in DOMAIN sr : sr[x] \in room.liveReceivers

\* a room where a peer, a receiver and senders have been closed and both maps
\* still hold entries
C14_Witness ==
    /\ room.peers # {} /\ Cardinality(room.peers) < Len(room.peerOrder)
    /\ Cardinality(room.liveReceivers) < Len(room.receivers)
    /\ Cardinality(room.liveSenders) < Len(room.senders)
    /\ DOMAIN room.mapRtpSenderRtpReceiver # {}
    /\ \E r \in DOMAIN room.mapRtpReceiverRtpSenders : room.mapRtpReceiverRtpSenders[r] # {}

-----------------------------------------------------------------------------
(* UnixStreamSocket: lifetime, carriers, flags *)

\* C15: the closed callback and the deletion of the socket come after the
\* completion callback of every write the socket queued: a deleted socket has
\* no queued write and no carrier left, and on_write never runs on a socket
\* that has deleted itself.
C15_ClosedAfterWrites ==
    /\ [](sock.deleted => sock.queue = <<>> /\ sock.freed = sock.allocated)
    /\ [][sock'.last.op = "on_write" => ~sock.deleted]_vars

\* a socket closed directly while two writes were queued: both were cancelled,
\* then the owner was told and the socket deleted
C15_Witness ==
    /\ sock.deleted
    /\ sock.atClose # <<FALSE, FALSE>>
    /\ sock.allocated = 2
    /\ sock.pipe = <<>>
    /\ sock.closeCause \in {"peer closed", "read error"}
    /\ sock.freed = 2

\* C16: every carrier allocated by Write is freed once, by the completion
\* callback of its write (the head of the queue), none is freed while its write
\* is queued, and all of them are eventually freed, also when the socket is
\* closed with writes still queued.
C16_CarriersFreed ==
    /\ [](sock.freed + Len(sock.queue) = sock.allocated)
    /\ [][sock'.freed # sock.freed =>
            /\ sock'.last.op = "on_write"
            /\ sock.queue # <<>>
            /\ sock'.queue = Tail(sock.queue)
            /\ sock'.freed = sock.freed + 1]_vars
    /\ <>[](sock.freed = sock.allocated)

\* the last of two queued writes cancelled by a direct close has just freed
\* its carrier
C16_Witness ==
    /\ sock.handle = "closing"
    /\ sock.last = [op |-> "on_write", status |-> "UV_ECANCELED"]
    /\ sock.atClose # <<FALSE, FALSE>>
    /\ sock.allocated = 2
    /\ sock.freed = 2

\* C17: the flag given to userOnUnixStreamSocketClosed is true exactly when
\* closing began with UV_EOF or UV_ECONNRESET on a read; it is false when it
\* began with a Close call, a read error, a write-completion error or a failed
\* uv_try_write.
C17_ClosedByPeerFlag ==
    sock.closedArgs # <<>> =>
        /\ sock.closeCause \in {"Close", "peer closed", "read error", "write error",
                                "uv_try_write error"}
        /\ sock.closedArgs[1] <=> (sock.closeCause = "peer closed")

\* the owner was told "closed by peer"
C17_Witness ==
    /\ sock.closedArgs = <<TRUE>>
    /\ sock.closeCause = "peer closed"
    /\ sock.allocated >= 1

\* C18: once isClosing is true, a Write attempts no uv_try_write and queues
\* nothing, a Close changes nothing, a write completion (with or without error)
\* issues no libuv call and records no error, and userOnUnixStreamRead is not
\* called.
C18_ClosingIsFinal ==
    [][ sock.isClosing =>
          /\ sock'.isClosing
          /\ sock'.tryWrites = sock.tryWrites
          /\ sock'.allocated = sock.allocated
          /\ Len(sock'.queue) <= Len(sock.queue)
          /\ sock'.last.op # "on_read"
          /\ sock'.reads = 0
          /\ sock'.last.op \in {"Write", "Close"} =>
                [sock' EXCEPT !.last = sock.last, !.nWrites = sock.nWrites] = sock
          /\ sock'.last.op = "on_write" =>
                /\ sock'.uvCalls = sock.uvCalls
                /\ sock'.hasError = sock.hasError
                /\ sock'.handle = sock.handle
                /\ sock'.shutdown = sock.shutdown
    ]_vars

\* a Write of two bytes on a socket that is shutting down with a write queued
C18_Witness ==
    /\ sock.isClosing
    /\ sock.last.op = "Write"
    /\ Len(sock.last.frame) = 2
    /\ sock.shutdown = "pending"
    /\ Len(sock.queue) = 1
    /\ sock.tryWrites = 1

\* a is a prefix of b
IsPrefix(a, b) == Len(a) <= Len(b) /\ SubSeq(b, 1, Len(a)) = a

\* C19: the bytes handed to the pipe, by uv_try_write and by the queued writes
\* that completed, are bytes of the frames given to Write, each at most once
\* and in call order (the bytes of the frames are distinct and increasing);
\* they are a prefix of the concatenated frames as long as no queued write
\* failed, which is the case on every socket that is still open.
C19_PipeOrder ==
    /\ \A i \in 1..Len(sock.pipe) : \E k \in 1..Len(sock.frames) : sock.frames[k] = sock.pipe[i]
    /\ \A i, j \in 1..Len(sock.pipe) : i < j => sock.pipe[i] < sock.pipe[j]
    /\ ~sock.isClosing => ~sock.writeFailed
    /\ ~sock.writeFailed => IsPrefix(sock.pipe, sock.frames)

\* two frames of two bytes, the first taken in part by uv_try_write, the
\* second written while the rest of the first was queued: all four bytes are
\* in the pipe
C19_Witness ==
    /\ Len(sock.frames) = 4
    /\ sock.pipe = sock.frames
    /\ sock.allocated = 2
    /\ sock.tryWrites = 2
    /\ ~sock.isClosing

\* C20: bufferDataLen never exceeds bufferSize; the region offered for a read
\* starts at buffer + bufferDataLen and has bufferSize - bufferDataLen bytes, so
\* the bytes read stay inside the buffer; with a full buffer the region is
\* empty, the read fails, and the socket is marked errored and closed.
C20_ReadRegion ==
    /\ sock.bufferDataLen <= BufferSize
    /\ sock.last.op = "on_read" =>
          /\ sock.last.base + sock.last.len = BufferSize
          /\ sock.last.base + sock.last.nread.n <= BufferSize
          /\ sock.last.len = 0 =>
                /\ sock.last.nread.kind = "UV_ENOBUFS"
                /\ sock.hasError
                /\ sock.isClosing
                /\ sock.uvCalls = <<"uv_read_stop", "uv_close in Close">>

\* a read offered an empty region because the buffer was full
C20_Witness ==
    /\ sock.last.op = "on_read"
    /\ sock.last.base = BufferSize
    /\ sock.last.len = 0
    /\ sock.hasError
    /\ sock.bufferDataLen = BufferSize

-----------------------------------------------------------------------------
(* RtpPacket: Serialize on a serialized packet *)

\* the step is a Serialize() call on a packet that is already serialized
IsSerializeAgain == nSerialize' = nSerialize + 1 /\ packet.isSerialized

\* the pointers Serialize copies from: the packet's parts before the call
SerializeSources == {packet.header, packet.csrcList, packet.extensionHeader, packet.payload} \ {NULL}

\* C21: Serialize on a packet that is already serialized reads no released
\* buffer, ends with a new owned buffer holding the same bytes and a packet
\* with the same field values as before the call, and releases the buffer the
\* packet owned before, which was not released yet.
C21_SerializeAgain ==
    [][ IsSerializeAgain =>
          /\ \A q \in SerializeSources : q.buf = "heap" => ~heap'[q.idx].freed
          /\ rtpPc' = "parsed"
          /\ packet'.isSerialized
          /\ packet'.raw.buf = "heap" /\ packet'.raw.idx # packet.raw.idx
          /\ ~heap'[packet'.raw.idx].freed
          /\ heap'[packet'.raw.idx].bytes = heap[packet.raw.idx].bytes
          /\ packet'.length = packet.length
          /\ packet'.payloadLength = packet.payloadLength
          /\ packet'.payloadPadding = packet.payloadPadding
          /\ \A part \in {"header", "csrcList", "extensionHeader", "payload"} :
                OffsetIn(packet', packet'[part]) = OffsetIn(packet, packet[part])
          /\ ~heap[packet.raw.idx].freed
          /\ heap'[packet.raw.idx].freed
    ]_vars

=============================================================================
